---- MODULE Spec2Model ----
(***************************************************************************)
(* Intraday-Scanner: the per-instrument signal scan (scanner.py), the      *)
(* market bias score and the gap candidate ranker (trend.py).              *)
(*                                                                         *)
(* The three pipelines share no state.  Each has its own specification     *)
(* (SpecScan, SpecBias, SpecGap); the variables of the other two pipelines *)
(* stay at their idle values.                                              *)
(*                                                                         *)
(* Units.  Python floats are modelled by integers on a grid:               *)
(*   - RSI, ADX, EMA values: whole numbers;                                *)
(*   - percentage moves of reference quotes (pct): tenths of a percent;    *)
(*   - the bias score: halves (every contribution is a multiple of 0.5,    *)
(*     so the float sum is exact);                                         *)
(*   - gap_pct: whole percent (the inputs are chosen so that the division  *)
(*     in pct_change is exact).                                            *)
(* NaN and infinities are outside the modelled input domain.               *)
(***************************************************************************)
EXTENDS Integers, Sequences, FiniteSets

VARIABLES
    \* ---- scanner.py: scan_stocks / display_scan_results / __main__
    stock_list,     \* the ordered instrument list handed to scan_stocks
    responses,      \* what the price provider answered for each processed ticker
    results,        \* scan_stocks' local list `results`
    scan_pc,        \* "scan" | "scanned" | "displayed" | "noresults" | "raised"
    table_buy,      \* rows of the printed BUY table, top to bottom
    table_watch,    \* rows of the printed WATCH table, top to bottom
    ret_buy,        \* first component of display_scan_results' return value
    ret_watch,      \* second component of display_scan_results' return value
    ret_skip,       \* the local skip_signals (computed, neither printed nor returned)
    \* ---- trend.py: score_market / run_scan's label
    us_data,        \* primary-market quotes, in dict order
    asia_data,      \* secondary-market quotes, in dict order
    gift,           \* the scraped auxiliary value
    vix,            \* the volatility quote
    bias_i,         \* index of the next quote of the running for loop
    score,          \* score_market's local `score`, in halves
    details,        \* score_market's local `details` (one tag per appended text)
    bias,           \* run_scan's label
    bias_pc,        \* "idle" | "us" | "asia" | "gift" | "vix" | "label" | "done"
    \* ---- trend.py: analyze_preopen_and_pick_stocks
    preopen_data,   \* the pre-market snapshot handed in (shape and row list)
    pool,           \* the fallback instrument pool
    top_n,          \* the top_n argument
    rows,           \* the local `rows`
    gap_i,          \* index of the next element of the running for loop
    candidates,     \* the local `candidates`
    consulted,      \* whether the fallback loop over `pool` was entered
    watch,          \* the returned list
    exc,            \* the exception that left the function, "" for none
    gap_pc          \* "idle" | "start" | "rows" | "fallback" | "rank" | "done" | "raised"

scanVars == <<stock_list, responses, results, scan_pc,
              table_buy, table_watch, ret_buy, ret_watch, ret_skip>>

biasVars == <<us_data, asia_data, gift, vix, bias_i, score, details, bias, bias_pc>>

gapVars == <<preopen_data, pool, top_n, rows, gap_i, candidates, consulted,
             watch, exc, gap_pc>>

vars == <<scanVars, biasVars, gapVars>>

\* what an action of one pipeline leaves alone
notScan == <<biasVars, gapVars>>
notBias == <<scanVars, gapVars>>
notGap  == <<scanVars, biasVars>>

\* ---------------------------------------------------------------- helpers

Range(s) == {s[k] : k \in 1..Len(s)}

Min2(a, b) == IF a <= b THEN a ELSE b

RECURSIVE SelectSeqBy(_, _)
\* a Python list comprehension [r for r in s if r.signal = sig]
SelectSeqBy(s, sig) ==
    IF s = <<>> THEN <<>>
    ELSE IF Head(s).signal = sig
         THEN <<Head(s)>> \o SelectSeqBy(Tail(s), sig)
         ELSE SelectSeqBy(Tail(s), sig)

\* ---------------------------------------------------------------- scanner.py

MinBars == 50
RsiUptrend == 50
AdxStrong == 25

\* sum([is_uptrend, ema_bullish, strong_trend])
BoolSum(a, b, c) ==
    (IF a THEN 1 ELSE 0) + (IF b THEN 1 ELSE 0) + (IF c THEN 1 ELSE 0)

ClassifyAlwaysBuy(signal_score, is_uptrend) ==
    IF signal_score >= 2 THEN "BUY" ELSE "SKIP"

\* the if / elif / else of get_latest_indicators
Classify(signal_score, is_uptrend) ==
    IF signal_score >= 2 /\ is_uptrend THEN "BUY"
    ELSE IF signal_score >= 2 THEN "WATCH"
    ELSE "SKIP"

\* The dict get_latest_indicators returns for the latest bar.  The price
\* fields (current_price, open_price, high, low, price_change_pct,
\* volume_ratio) are copied through from the bar and take part in no decision.
SignalResult(ticker, rsi, ema_20, ema_50, adx) ==
    LET is_uptrend   == rsi > RsiUptrend
        ema_bullish  == ema_20 > ema_50
        strong_trend == adx > AdxStrong
        signal_score == BoolSum(is_uptrend, ema_bullish, strong_trend)
    IN  [ticker |-> ticker, rsi |-> rsi, ema_20 |-> ema_20, ema_50 |-> ema_50,
         adx |-> adx, is_uptrend |-> is_uptrend, ema_bullish |-> ema_bullish,
         strong_trend |-> strong_trend,
         signal |-> Classify(signal_score, is_uptrend),
         signal_score |-> signal_score]

\* What the provider and the indicator library can answer for one ticker:
\* exc: some call inside the try block raised; nbars: rows of history();
\* nincomplete: rows dropna() removes; the indicator values of the last row.
\* The indicator values only exist when the computation is reached.
NoIndicators == [rsi |-> 0, ema_20 |-> 0, ema_50 |-> 0, adx |-> 0]

Indicators == [rsi : {50, 60, 70}, ema_20 : {100, 101}, ema_50 : {100}, adx : {25, 30}]

Bars == {b \in [nbars : {0, MinBars - 1, MinBars}, nincomplete : {0, 1}] :
            b.nincomplete <= b.nbars}

Responses ==
    {[exc |-> TRUE, bars |-> [nbars |-> 0, nincomplete |-> 0], ind |-> NoIndicators]}
    \cup {[exc |-> FALSE, bars |-> b, ind |-> NoIndicators] :
             b \in {x \in Bars : x.nbars - x.nincomplete < MinBars}}
    \cup {[exc |-> FALSE, bars |-> b, ind |-> v] :
             b \in {x \in Bars : x.nbars - x.nincomplete >= MinBars}, v \in Indicators}

NoneResult == [kind |-> "None"]

\* The body of the try block: kind "None" (return None), "dict" (return the
\* result) or "raise" (a call inside the block raised).
indicators_body(ticker, resp) ==
    IF resp.exc THEN [kind |-> "raise"]
    ELSE IF resp.bars.nbars = 0 THEN NoneResult       \* data is None or len(data) == 0
    ELSE IF resp.bars.nbars - resp.bars.nincomplete < MinBars
         THEN NoneResult                              \* len(DF) < 50 after dropna()
    ELSE [kind |-> "dict",
          d |-> SignalResult(ticker, resp.ind.rsi, resp.ind.ema_20,
                             resp.ind.ema_50, resp.ind.adx)]

get_latest_indicators_uncaught(ticker, resp) == indicators_body(ticker, resp)

\* get_latest_indicators: the try block under `except Exception: return None`.
get_latest_indicators(ticker, resp) ==
    LET r == indicators_body(ticker, resp)
    IN  IF r.kind = "raise" THEN NoneResult ELSE r

RECURSIVE InsertDesc(_, _, _)
\* x placed after every element whose key is >= its own: equal keys keep
\* their input order, as Python's stable sorted(..., reverse=True) does.
InsertDesc(s, x, key) ==
    IF s = <<>> THEN <<x>>
    ELSE IF Head(s)[key] >= x[key]
         THEN <<Head(s)>> \o InsertDesc(Tail(s), x, key)
         ELSE <<x>> \o s

RECURSIVE SortedStable(_, _, _)
SortedStable(s, key, acc) ==
    IF s = <<>> THEN acc
    ELSE SortedStable(Tail(s), key, InsertDesc(acc, Head(s), key))

sorted_unsorted(s, key) == s

\* sorted(s, key=lambda x: x[key], reverse=True)
sorted_reverse(s, key) == SortedStable(s, key, <<>>)

\* One printed table row (the columns that identify and order it; the
\* formatted price, change and volume columns are copied through).
TableRow(r) ==
    [ticker |-> r.ticker, rsi |-> r.rsi, adx |-> r.adx,
     ema |-> IF r.ema_bullish THEN "Bull" ELSE "Bear",
     signal_score |-> r.signal_score]

RECURSIVE TableData(_)
TableData(s) ==
    IF s = <<>> THEN <<>> ELSE <<TableRow(Head(s))>> \o TableData(Tail(s))

\* ---------------------------------------------------------------- trend.py: bias

\* A reference quote as score_market reads it: None (present = FALSE), or a
\* dict whose "pct" is None (has_pct = FALSE) or a number, in tenths of a percent.
NoQuote == [present |-> FALSE, has_pct |-> FALSE, pct |-> 0]

Quote(p) == [present |-> TRUE, has_pct |-> TRUE, pct |-> p]

QuoteNoPct == [present |-> TRUE, has_pct |-> FALSE, pct |-> 0]

\* `if info and info.get("pct", 0) is not None`
has_usable_pct(info) == info.present /\ info.has_pct

primary_contribution_docstring(info) ==
    IF has_usable_pct(info) /\ info.pct > 0 THEN 2 ELSE 0

\* one iteration over us_data: score += 1 / score -= 1, in halves
primary_contribution(info) ==
    IF has_usable_pct(info)
    THEN IF info.pct > 0 THEN 2 ELSE -2
    ELSE 0

\* one iteration over asia_data: score += 0.5 / score -= 0.5, in halves
secondary_contribution(info) ==
    IF has_usable_pct(info)
    THEN IF info.pct > 0 THEN 1 ELSE -1
    ELSE 0

\* `if gift and isinstance(gift, dict) and gift.get("value")`: only a detail
\* is appended (gift: the scraped value, 0 standing for None or a zero value)
gift_is_reported(g) == g # 0

\* the `if vix:` block: score -= 1.5 above +3.0 %, score += 0.5 below -2.0 %
vix_contribution(v) ==
    IF ~v.present THEN 0
    ELSE IF v.has_pct /\ v.pct > 30 THEN -3
    ELSE IF v.has_pct /\ v.pct < -20 THEN 1
    ELSE 0

bias_label_inclusive(sc) ==
    IF sc >= 2 THEN "BULLISH" ELSE IF sc <= -2 THEN "BEARISH" ELSE "NEUTRAL"

bias_label_wide(sc) ==
    IF sc > 3 THEN "BULLISH" ELSE IF sc < -3 THEN "BEARISH" ELSE "NEUTRAL"

\* run_scan: "BULLISH" if score > 1.0 else ("BEARISH" if score < -1.0 else "NEUTRAL")
bias_label(sc) ==
    IF sc > 2 THEN "BULLISH" ELSE IF sc < -2 THEN "BEARISH" ELSE "NEUTRAL"

\* ---------------------------------------------------------------- trend.py: gaps

\* A Python value as the ranker meets it: None, a number, or a string.
NoneV == [t |-> "none", n |-> 0, s |-> ""]

Num(x) == [t |-> "num", n |-> x, s |-> ""]

Str(x) == [t |-> "str", n |-> 0, s |-> x]

\* Python truthiness, as `or` and `not` test it
Truthy(v) ==
    CASE v.t = "none" -> FALSE
      [] v.t = "num"  -> v.n # 0
      [] v.t = "str"  -> v.s # ""

\* a or b
Or(a, b) == IF Truthy(a) THEN a ELSE b

\* The strings float() parses, with their values; float() of any other
\* string raises ValueError.
NumericStrings == {"50", "46"}

StringValue(str) == CASE str = "50" -> 50 [] str = "46" -> 46

FloatRaises(v) ==
    \/ v.t = "none"
    \/ v.t = "str" /\ v.s \notin NumericStrings

\* float(v), where it does not raise
Float(v) == IF v.t = "num" THEN v.n ELSE StringValue(v.s)

Keys == {"symbol", "scrip", "name", "prev_close", "prevClose", "previousClose",
         "open", "preopen_price", "preopen", "qty", "quantity", "tradedQty"}

\* r.get(k): None for a missing key
Get(r, k) == r.f[k]

\* pct_change: (curr - prev) / prev * 100.0, None when the division raises
pct_change(curr, prev) ==
    IF prev = 0 THEN NoneV ELSE Num(((curr - prev) * 100) \div prev)

\* the body of `for r in rows`: what it does with one row.
\*   "raise": r.get is outside the try block, a row without .get raises
\*   "skip":  `continue` (a float() raised, or no symbol)
\*   "row":   the dict appended to candidates
snapshot_row(r) ==
    IF ~r.mapping THEN [kind |-> "raise"]
    ELSE
    LET sym   == Or(Or(Get(r, "symbol"), Get(r, "scrip")), Get(r, "name"))
        prevv == Or(Or(Or(Get(r, "prev_close"), Get(r, "prevClose")),
                       Get(r, "previousClose")), Num(0))
        opv   == Or(Or(Get(r, "open"), Get(r, "preopen_price")), Get(r, "preopen"))
        qtyv  == Or(Or(Or(Get(r, "qty"), Get(r, "quantity")),
                       Get(r, "tradedQty")), Num(0))
    IN  IF FloatRaises(prevv) THEN [kind |-> "skip"]
        ELSE LET prev == Float(prevv)
                 opvv == Or(opv, Num(prev))
             IN  IF FloatRaises(opvv) \/ FloatRaises(qtyv) THEN [kind |-> "skip"]
                 ELSE IF ~Truthy(sym) THEN [kind |-> "skip"]
                 ELSE [kind |-> "row",
                       d |-> [symbol |-> sym.s,
                              prev_close |-> prev,
                              preopen |-> Float(opvv),
                              gap_pct |-> IF prev > 0
                                          THEN pct_change(Float(opvv), prev)
                                          ELSE Num(0),
                              qty |-> Num(Float(qtyv))]]

\* `if preopen_data:` and the choice of `rows`.  The snapshot is its shape
\* and the one row list it holds:
\*   "None", "emptydict" (falsy), "scalar" (neither dict nor list),
\*   "dict_nolist" (a dict holding no list),
\*   "dict_data", "dict_result", "dict_values" (the list under "data", under
\*   "result", or the first list among the values), "list" (a bare list).
snapshot_truthy(data) ==
    /\ data.shape \notin {"None", "emptydict"}
    /\ ~(data.shape = "list" /\ data.rows = <<>>)

extract_rows(data) ==
    IF snapshot_truthy(data)
       /\ data.shape \in {"dict_data", "dict_result", "dict_values", "list"}
    THEN data.rows
    ELSE <<>>

\* s.replace(".NS", "")
StripNS(sym) ==
    CASE sym = "RELIANCE.NS" -> "RELIANCE"
      [] sym = "TCS.NS" -> "TCS"
      [] sym = "HDFCBANK.NS" -> "HDFCBANK"
      [] sym = "INFY.NS" -> "INFY"

\* the body of `for s in pool`: hist is what yfinance answers
\* (exc: a call raised; nbars: hist.shape[0]; the last two closes)
fallback_row(sym, hist) ==
    IF hist.exc THEN [kind |-> "skip"]                 \* except Exception: continue
    ELSE IF hist.nbars < 2 THEN [kind |-> "skip"]
    ELSE [kind |-> "row",
          d |-> [symbol |-> StripNS(sym),
                 prev_close |-> hist.prev,
                 preopen |-> hist.latest,
                 gap_pct |-> pct_change(hist.latest, hist.prev),
                 qty |-> NoneV]]

needs_fallback_always(cands) == TRUE

\* `if not candidates:`
needs_fallback(cands) == cands = <<>>

Abs(x) == IF x < 0 THEN -x ELSE x

\* df['qty'].notnull().any()
qty_present(cands) == \E k \in 1..Len(cands) : cands[k].qty.t = "num"

QtyValues(cands) == {cands[k].qty.n : k \in {j \in 1..Len(cands) : cands[j].qty.t = "num"}}

\* df['qty'].min() and df['qty'].max()
QtyMin(cands) == CHOOSE m \in QtyValues(cands) : \A q \in QtyValues(cands) : m <= q

QtyMax(cands) == CHOOSE m \in QtyValues(cands) : \A q \in QtyValues(cands) : m >= q

\* max - min of qty, 0 when qty_norm is the constant 0.0
QtyRange(cands) ==
    IF qty_present(cands) THEN QtyMax(cands) - QtyMin(cands) ELSE 0

\* qty - min, the numerator of qty_norm
QtyOffset(cands, k) ==
    IF qty_present(cands) THEN cands[k].qty.n - QtyMin(cands) ELSE 0

\* df['gap_pct'] is an object column when every gap_pct is None:
\* .abs() then raises TypeError
abs_gap_raises(cands) == \A k \in 1..Len(cands) : cands[k].gap_pct.t = "none"

\* a None gap_pct beside numbers is NaN, and so is the row's score
score_is_nan(cands, k) == cands[k].gap_pct.t = "none"

\* df['score'] = abs_gap * 0.7 + qty_norm * 0.3 with
\* qty_norm = (qty - min) / (max - min + 1e-9).  Times 10 * (max - min),
\* or times 10 when max = min, the score is
\*     7 * abs_gap * range + 3 * offset   minus   3 * offset * 1e-9 / (range + 1e-9):
\* a whole number on the grid, less a term below 3e-9 that grows with the
\* offset.  ScoreMajor is the whole number; the small term only decides
\* between rows whose ScoreMajor is equal, for the row with the smaller offset.
ScoreMajor(cands, k) ==
    LET range == QtyRange(cands)
    IN  7 * Abs(cands[k].gap_pct.n) * (IF range = 0 THEN 1 ELSE range)
        + 3 * QtyOffset(cands, k)

\* row a's score is greater than row b's (NaN is greater than nothing and
\* sort_values puts it last)
ScoreGreater(cands, a, b) ==
    /\ ~score_is_nan(cands, a)
    /\ \/ score_is_nan(cands, b)
       \/ ScoreMajor(cands, a) > ScoreMajor(cands, b)
       \/ /\ ScoreMajor(cands, a) = ScoreMajor(cands, b)
          /\ QtyOffset(cands, a) < QtyOffset(cands, b)

RowOrders(n) == {p \in [1..n -> 1..n] : \A a, b \in 1..n : a # b => p[a] # p[b]}

\* df.sort_values('score', ascending=False): the row orders it can produce
\* (the order of rows with equal scores is not fixed)
sort_orders(cands) ==
    {p \in RowOrders(Len(cands)) :
        \A a, b \in 1..Len(cands) : a < b => ~ScoreGreater(cands, p[b], p[a])}

\* df.head(top_n).to_dict('records'), the rows taken in the order p
head_records(cands, p, n) ==
    [k \in 1..Min2(n, Len(cands)) |-> cands[p[k]]]

\* ---------------------------------------------------------------- bounds

MaxStocks == 3
MaxPrimary == 2
MaxSecondary == 1
MaxRows == 2
MaxPool == 2
MaxTopN == 2

SeqsUpTo(S, n) == UNION {[1..m -> S] : m \in 0..n}

\* ---------------------------------------------------------------- idle pipelines

BiasIdle ==
    /\ us_data = <<>>
    /\ asia_data = <<>>
    /\ gift = 0
    /\ vix = NoQuote
    /\ bias_i = 1
    /\ score = 0
    /\ details = <<>>
    /\ bias = "unset"
    /\ bias_pc = "idle"

GapIdle ==
    /\ preopen_data = [shape |-> "None", rows |-> <<>>]
    /\ pool = <<>>
    /\ top_n = 0
    /\ rows = <<>>
    /\ gap_i = 1
    /\ candidates = <<>>
    /\ consulted = FALSE
    /\ watch = <<>>
    /\ exc = ""
    /\ gap_pc = "idle"

\* ---------------------------------------------------------------- SpecScan

ScanInit ==
    /\ stock_list \in {[k \in 1..n |-> k] : n \in 0..MaxStocks}
    /\ responses = <<>>
    /\ results = <<>>
    /\ scan_pc = "scan"
    /\ table_buy = <<>>
    /\ table_watch = <<>>
    /\ ret_buy = <<>>
    /\ ret_watch = <<>>
    /\ ret_skip = <<>>

ScanIdle ==
    /\ stock_list = <<>>
    /\ responses = <<>>
    /\ results = <<>>
    /\ scan_pc = "idle"
    /\ table_buy = <<>>
    /\ table_watch = <<>>
    /\ ret_buy = <<>>
    /\ ret_watch = <<>>
    /\ ret_skip = <<>>

\* one iteration of `for ticker in stock_list`
ScanOne ==
    /\ scan_pc = "scan"
    /\ Len(responses) < Len(stock_list)
    /\ \E resp \in Responses :
         LET ticker == stock_list[Len(responses) + 1]
             data   == get_latest_indicators(ticker, resp)
         IN  /\ responses' = Append(responses, resp)
             /\ IF data.kind = "raise"
                THEN /\ scan_pc' = "raised"
                     /\ results' = results
                ELSE /\ scan_pc' = scan_pc
                     /\ results' = IF data.kind = "dict"
                                   THEN Append(results, data.d)
                                   ELSE results
    /\ UNCHANGED <<stock_list, table_buy, table_watch, ret_buy, ret_watch, ret_skip>>
    /\ UNCHANGED notScan

\* `return results`
ScanReturn ==
    /\ scan_pc = "scan"
    /\ Len(responses) = Len(stock_list)
    /\ scan_pc' = "scanned"
    /\ UNCHANGED <<stock_list, responses, results,
                   table_buy, table_watch, ret_buy, ret_watch, ret_skip>>
    /\ UNCHANGED notScan

\* __main__: `if results:` display_scan_results(results)
Display ==
    /\ scan_pc = "scanned"
    /\ results # <<>>
    /\ LET buy_signals   == SelectSeqBy(results, "BUY")
           watch_signals == SelectSeqBy(results, "WATCH")
           skip_signals  == SelectSeqBy(results, "SKIP")
       IN  /\ table_buy' = TableData(sorted_reverse(buy_signals, "rsi"))
           /\ table_watch' = TableData(sorted_reverse(watch_signals, "signal_score"))
           /\ ret_buy' = buy_signals
           /\ ret_watch' = watch_signals
           /\ ret_skip' = skip_signals
    /\ scan_pc' = "displayed"
    /\ UNCHANGED <<stock_list, responses, results>>
    /\ UNCHANGED notScan

\* __main__: `else: print("No results found. ...")`
NoResults ==
    /\ scan_pc = "scanned"
    /\ results = <<>>
    /\ scan_pc' = "noresults"
    /\ UNCHANGED <<stock_list, responses, results,
                   table_buy, table_watch, ret_buy, ret_watch, ret_skip>>
    /\ UNCHANGED notScan

InitScan == ScanInit /\ BiasIdle /\ GapIdle

NextScan == ScanOne \/ ScanReturn \/ Display \/ NoResults

SpecScan == InitScan /\ [][NextScan]_vars

\* ---------------------------------------------------------------- SpecBias

PrimaryQuotes == {NoQuote, QuoteNoPct, Quote(-10), Quote(0), Quote(10)}

VixQuotes == {NoQuote, QuoteNoPct, Quote(-21), Quote(-20), Quote(30), Quote(40)}

BiasInit ==
    /\ us_data \in SeqsUpTo(PrimaryQuotes, MaxPrimary)
    /\ asia_data \in SeqsUpTo(PrimaryQuotes, MaxSecondary)
    /\ gift \in {0, 25000}
    /\ vix \in VixQuotes
    /\ bias_i = 1
    /\ score = 0
    /\ details = <<>>
    /\ bias = "unset"
    /\ bias_pc = "us"

Detail(info) ==
    IF has_usable_pct(info)
    THEN IF info.pct > 0 THEN <<"up">> ELSE <<"down">>
    ELSE <<>>

\* one iteration of `for name, info in us_data.items()`
ScorePrimary ==
    /\ bias_pc = "us"
    /\ bias_i <= Len(us_data)
    /\ score' = score + primary_contribution(us_data[bias_i])
    /\ details' = details \o Detail(us_data[bias_i])
    /\ bias_i' = bias_i + 1
    /\ UNCHANGED <<us_data, asia_data, gift, vix, bias, bias_pc>>
    /\ UNCHANGED notBias

PrimaryDone ==
    /\ bias_pc = "us"
    /\ bias_i > Len(us_data)
    /\ bias_pc' = "asia"
    /\ bias_i' = 1
    /\ UNCHANGED <<us_data, asia_data, gift, vix, score, details, bias>>
    /\ UNCHANGED notBias

\* one iteration of `for name, info in asia_data.items()`
ScoreSecondary ==
    /\ bias_pc = "asia"
    /\ bias_i <= Len(asia_data)
    /\ score' = score + secondary_contribution(asia_data[bias_i])
    /\ details' = details \o Detail(asia_data[bias_i])
    /\ bias_i' = bias_i + 1
    /\ UNCHANGED <<us_data, asia_data, gift, vix, bias, bias_pc>>
    /\ UNCHANGED notBias

SecondaryDone ==
    /\ bias_pc = "asia"
    /\ bias_i > Len(asia_data)
    /\ bias_pc' = "gift"
    /\ bias_i' = 1
    /\ UNCHANGED <<us_data, asia_data, gift, vix, score, details, bias>>
    /\ UNCHANGED notBias

\* the `if gift ...` block: a detail, no score
ScoreGift ==
    /\ bias_pc = "gift"
    /\ details' = IF gift_is_reported(gift) THEN Append(details, "gift") ELSE details
    /\ bias_pc' = "vix"
    /\ UNCHANGED <<us_data, asia_data, gift, vix, bias_i, score, bias>>
    /\ UNCHANGED notBias

\* the `if vix:` block and `return score, details`
ScoreVix ==
    /\ bias_pc = "vix"
    /\ score' = score + vix_contribution(vix)
    /\ details' = IF vix_contribution(vix) < 0 THEN Append(details, "vix_up")
                  ELSE IF vix_contribution(vix) > 0 THEN Append(details, "vix_down")
                  ELSE details
    /\ bias_pc' = "label"
    /\ UNCHANGED <<us_data, asia_data, gift, vix, bias_i, bias>>
    /\ UNCHANGED notBias

\* run_scan: bias = ...
Label ==
    /\ bias_pc = "label"
    /\ bias' = bias_label(score)
    /\ bias_pc' = "done"
    /\ UNCHANGED <<us_data, asia_data, gift, vix, bias_i, score, details>>
    /\ UNCHANGED notBias

InitBias == BiasInit /\ ScanIdle /\ GapIdle

NextBias ==
    \/ ScorePrimary
    \/ PrimaryDone
    \/ ScoreSecondary
    \/ SecondaryDone
    \/ ScoreGift
    \/ ScoreVix
    \/ Label

SpecBias == InitBias /\ [][NextBias]_vars

\* ---------------------------------------------------------------- SpecGap

Blank == [k \in Keys |-> NoneV]

Mapping(f) == [mapping |-> TRUE, f |-> f]

\* a row that is no key-value mapping (a string, a number, null)
NotAMapping == [mapping |-> FALSE, f |-> Blank]

\* The rows a snapshot may hold.
RowPool ==
    { \* gap +5 %, the larger quantity
      Mapping([Blank EXCEPT !["symbol"] = Str("AAA"), !["prev_close"] = Num(100),
                            !["open"] = Num(105), !["qty"] = Num(100)]),
      \* synonyms and numbers sent as strings: gap -8 %, the smaller quantity
      Mapping([Blank EXCEPT !["scrip"] = Str("BBB"), !["prevClose"] = Str("50"),
                            !["preopen_price"] = Str("46"), !["quantity"] = Num(50)]),
      \* previous close 0, no quantity
      Mapping([Blank EXCEPT !["name"] = Str("CCC"), !["previousClose"] = Num(0),
                            !["preopen"] = Num(10)]),
      \* an empty symbol beside a name; no open price
      Mapping([Blank EXCEPT !["symbol"] = Str(""), !["name"] = Str("DDD"),
                            !["prev_close"] = Num(100), !["tradedQty"] = Num(100)]),
      \* no symbol under any synonym
      Mapping([Blank EXCEPT !["prev_close"] = Num(100), !["open"] = Num(105)]),
      \* a previous close that float() cannot parse
      Mapping([Blank EXCEPT !["symbol"] = Str("EEE"), !["prev_close"] = Str("n/a"),
                            !["open"] = Num(105)]),
      NotAMapping }

Snapshots ==
    {[shape |-> sh, rows |-> <<>>] :
        sh \in {"None", "emptydict", "scalar", "dict_nolist"}}
    \cup {[shape |-> sh, rows |-> rs] :
        sh \in {"dict_data", "dict_result", "dict_values", "list"},
        rs \in SeqsUpTo(RowPool, MaxRows)}

PoolNames == <<"RELIANCE.NS", "TCS.NS", "HDFCBANK.NS", "INFY.NS">>

\* What yfinance can answer for one pool symbol.
Hists ==
    {[exc |-> TRUE, nbars |-> 0, prev |-> 0, latest |-> 0],
     [exc |-> FALSE, nbars |-> 1, prev |-> 0, latest |-> 0],
     [exc |-> FALSE, nbars |-> 2, prev |-> 0, latest |-> 10],
     [exc |-> FALSE, nbars |-> 2, prev |-> 100, latest |-> 105],
     [exc |-> FALSE, nbars |-> 2, prev |-> 50, latest |-> 46]}

GapInit ==
    /\ preopen_data \in Snapshots
    /\ pool \in {SubSeq(PoolNames, 1, n) : n \in 0..MaxPool}
    /\ top_n \in 0..MaxTopN
    /\ rows = <<>>
    /\ gap_i = 1
    /\ candidates = <<>>
    /\ consulted = FALSE
    /\ watch = <<>>
    /\ exc = ""
    /\ gap_pc = "start"

\* `if preopen_data:` ... the choice of `rows`
ExtractRows ==
    /\ gap_pc = "start"
    /\ rows' = extract_rows(preopen_data)
    /\ gap_pc' = "rows"
    /\ UNCHANGED <<preopen_data, pool, top_n, gap_i, candidates, consulted, watch, exc>>
    /\ UNCHANGED notGap

\* one iteration of `for r in rows`
SnapshotRow ==
    /\ gap_pc = "rows"
    /\ gap_i <= Len(rows)
    /\ LET out == snapshot_row(rows[gap_i])
       IN  IF out.kind = "raise"
           THEN /\ exc' = "AttributeError"
                /\ gap_pc' = "raised"
                /\ UNCHANGED <<gap_i, candidates>>
           ELSE /\ candidates' = IF out.kind = "row"
                                  THEN Append(candidates, out.d)
                                  ELSE candidates
                /\ gap_i' = gap_i + 1
                /\ UNCHANGED <<exc, gap_pc>>
    /\ UNCHANGED <<preopen_data, pool, top_n, rows, consulted, watch>>
    /\ UNCHANGED notGap

\* `if not candidates:` taken: the loop over pool is entered
EnterFallback ==
    /\ gap_pc = "rows"
    /\ gap_i > Len(rows)
    /\ needs_fallback(candidates)
    /\ consulted' = TRUE
    /\ gap_i' = 1
    /\ gap_pc' = "fallback"
    /\ UNCHANGED <<preopen_data, pool, top_n, rows, candidates, watch, exc>>
    /\ UNCHANGED notGap

\* `if not candidates:` not taken
SkipFallback ==
    /\ gap_pc = "rows"
    /\ gap_i > Len(rows)
    /\ ~needs_fallback(candidates)
    /\ gap_pc' = "rank"
    /\ UNCHANGED <<preopen_data, pool, top_n, rows, gap_i, candidates, consulted,
                   watch, exc>>
    /\ UNCHANGED notGap

\* one iteration of `for s in pool`
FallbackRow ==
    /\ gap_pc = "fallback"
    /\ gap_i <= Len(pool)
    /\ \E hist \in Hists :
         LET out == fallback_row(pool[gap_i], hist)
         IN  candidates' = IF out.kind = "row"
                           THEN Append(candidates, out.d)
                           ELSE candidates
    /\ gap_i' = gap_i + 1
    /\ UNCHANGED <<preopen_data, pool, top_n, rows, consulted, watch, exc, gap_pc>>
    /\ UNCHANGED notGap

FallbackDone ==
    /\ gap_pc = "fallback"
    /\ gap_i > Len(pool)
    /\ gap_pc' = "rank"
    /\ UNCHANGED <<preopen_data, pool, top_n, rows, gap_i, candidates, consulted,
                   watch, exc>>
    /\ UNCHANGED notGap

\* the ranking: DataFrame, scores, sort_values, head, return
Rank ==
    /\ gap_pc = "rank"
    /\ IF candidates = <<>>
       THEN /\ watch' = <<>>                          \* df.empty: return []
            /\ gap_pc' = "done"
            /\ exc' = exc
       ELSE IF abs_gap_raises(candidates)
       THEN /\ exc' = "TypeError"
            /\ gap_pc' = "raised"
            /\ watch' = watch
       ELSE /\ \E p \in sort_orders(candidates) :
                 watch' = head_records(candidates, p, top_n)
            /\ gap_pc' = "done"
            /\ exc' = exc
    /\ UNCHANGED <<preopen_data, pool, top_n, rows, gap_i, candidates, consulted>>
    /\ UNCHANGED notGap

InitGap == GapInit /\ ScanIdle /\ BiasIdle

NextGap ==
    \/ ExtractRows
    \/ SnapshotRow
    \/ EnterFallback
    \/ SkipFallback
    \/ FallbackRow
    \/ FallbackDone
    \/ Rank

SpecGap == InitGap /\ [][NextGap]_vars

\* ---------------------------------------------------------------- claims: scan

IsSortedDesc(s, key) ==
    \A a, b \in 1..Len(s) : a < b => s[a][key] >= s[b][key]

Tickers(s) == [k \in 1..Len(s) |-> s[k].ticker]

\* the number of k in 1..Len(s) with s[k] = x
Count(s, x) == Cardinality({k \in 1..Len(s) : s[k] = x})

Succeeded(resp) ==
    /\ ~resp.exc
    /\ resp.bars.nbars > 0
    /\ resp.bars.nbars - resp.bars.nincomplete >= 50

RECURSIVE SucceededTickers(_, _)
\* the tickers, in input order, whose provider answer allows a result
SucceededTickers(list, resps) ==
    IF resps = <<>> THEN <<>>
    ELSE IF Succeeded(Head(resps))
         THEN <<Head(list)>> \o SucceededTickers(Tail(list), Tail(resps))
         ELSE SucceededTickers(Tail(list), Tail(resps))

\* C1: every result's signal_score is the number of true booleans among
\* is_uptrend (RSI > 50), ema_bullish (EMA_20 > EMA_50) and strong_trend
\* (ADX > 25), an integer in 0..3; signal is BUY exactly when
\* signal_score >= 2 and is_uptrend, WATCH exactly when signal_score >= 2 and
\* not is_uptrend, and SKIP in every other case.
C1_SignalClassification ==
    \A k \in 1..Len(results) :
        LET r == results[k]
            n == Cardinality({f \in {"is_uptrend", "ema_bullish", "strong_trend"} : r[f]})
        IN  /\ r.is_uptrend = (r.rsi > 50)
            /\ r.ema_bullish = (r.ema_20 > r.ema_50)
            /\ r.strong_trend = (r.adx > 25)
            /\ r.signal_score = n
            /\ r.signal_score \in 0..3
            /\ (r.signal = "BUY") = (n >= 2 /\ r.is_uptrend)
            /\ (r.signal = "WATCH") = (n >= 2 /\ ~r.is_uptrend)
            /\ (r.signal = "SKIP") = (n < 2)

\* C1 witness: one scan holds a BUY, a SKIP and the asymmetric WATCH
\* (EMA bullish, strong trend, RSI not above 50).
C1_Witness ==
    /\ \E k \in 1..Len(results) :
          /\ results[k].signal = "WATCH"
          /\ results[k].rsi <= 50
          /\ results[k].signal_score = 2
    /\ \E k \in 1..Len(results) :
          results[k].signal = "BUY" /\ results[k].signal_score = 3
    /\ \E k \in 1..Len(results) : results[k].signal = "SKIP"

\* C8: scan_stocks processes every instrument and returns, in input order,
\* exactly one result for each instrument whose computation succeeded and none
\* for one that failed (no bars, fewer than 50 valid bars, or an exception);
\* no failure stops the loop or leaves scan_stocks.
C8_ScanSkipsFailures ==
    /\ scan_pc # "raised"
    /\ Tickers(results) = SucceededTickers(stock_list, responses)
    /\ scan_pc # "scan" => Len(responses) = Len(stock_list)

\* C8 witness: the scan has returned a result although one instrument raised
\* before it and one had 50 bars of which one was incomplete.
C8_Witness ==
    /\ scan_pc = "scanned"
    /\ Len(results) >= 1
    /\ \E a, b \in 1..Len(responses) :
          a < b /\ responses[a].exc /\ Succeeded(responses[b])
    /\ \E a \in 1..Len(responses) :
          /\ ~responses[a].exc
          /\ responses[a].bars.nbars = 50
          /\ responses[a].bars.nincomplete = 1

\* C9 as stated: the partitions display_scan_results hands back are ordered
\* (BUY by RSI descending, WATCH by signal_score descending) and every result
\* is in the partition named by its signal and in no other.
C9_ReturnedPartitionsOrdered ==
    scan_pc = "displayed" =>
        /\ IsSortedDesc(ret_buy, "rsi")
        /\ IsSortedDesc(ret_watch, "signal_score")
        /\ \A k \in 1..Len(results) :
              LET r == results[k]
              IN  /\ (r \in Range(ret_buy)) = (r.signal = "BUY")
                  /\ (r \in Range(ret_watch)) = (r.signal = "WATCH")
                  /\ (r \in Range(ret_skip)) = (r.signal = "SKIP")

\* C9 amended: the BUY table display_scan_results prints is sorted by RSI
\* descending and the WATCH table by signal_score descending; each table holds
\* exactly the results of its signal, once each; the lists it returns
\* (buy_signals, watch_signals) hold the same results in input order; SKIP
\* results are collected in skip_signals, which is neither printed nor returned.
C9_PrintedTablesOrdered ==
    scan_pc = "displayed" =>
        /\ IsSortedDesc(table_buy, "rsi")
        /\ IsSortedDesc(table_watch, "signal_score")
        /\ ret_buy = SelectSeq(results, LAMBDA r : r.signal = "BUY")
        /\ ret_watch = SelectSeq(results, LAMBDA r : r.signal = "WATCH")
        /\ ret_skip = SelectSeq(results, LAMBDA r : r.signal = "SKIP")
        /\ Len(table_buy) = Len(ret_buy)
        /\ Len(table_watch) = Len(ret_watch)
        /\ \A k \in 1..Len(results) :
              LET r == results[k]
              IN  /\ Count(Tickers(table_buy), r.ticker)
                        = (IF r.signal = "BUY" THEN 1 ELSE 0)
                  /\ Count(Tickers(table_watch), r.ticker)
                        = (IF r.signal = "WATCH" THEN 1 ELSE 0)

\* C9 witness: two BUY results arrive in ascending RSI order, so the printed
\* table reverses them while the returned list does not, beside a WATCH and
\* a SKIP result.
C9_Witness ==
    /\ scan_pc = "displayed"
    /\ Len(ret_buy) >= 2
    /\ ret_buy[1].rsi < ret_buy[2].rsi
    /\ Tickers(table_buy) # Tickers(ret_buy)
    /\ Len(table_watch) >= 1

\* ---------------------------------------------------------------- claims: bias

Usable(q) == q.present /\ q.has_pct

\* how many quotes of s have a pct, and one that is > 0 (up) or <= 0 (not up)
NumUp(s) == Cardinality({k \in 1..Len(s) : Usable(s[k]) /\ s[k].pct > 0})

NumNotUp(s) == Cardinality({k \in 1..Len(s) : Usable(s[k]) /\ s[k].pct <= 0})

\* the claimed score, in halves; the auxiliary value has no term
ClaimedScore ==
    2 * NumUp(us_data) - 2 * NumNotUp(us_data)
    + NumUp(asia_data) - NumNotUp(asia_data)
    + (IF Usable(vix) /\ vix.pct > 30 THEN -3
       ELSE IF Usable(vix) /\ vix.pct < -20 THEN 1
       ELSE 0)

C3_Case ==
    /\ bias_pc = "done"
    /\ Usable(vix) /\ vix.pct = 40
    /\ NumUp(us_data) = NumNotUp(us_data)
    /\ NumUp(asia_data) = 0 /\ NumNotUp(asia_data) = 0

C4_LabelThresholds ==
    bias_pc = "done" =>
        /\ (bias = "BULLISH") = (score > 2)
        /\ (bias = "BEARISH") = (score < -2)
        /\ (bias = "NEUTRAL") = (score >= -2 /\ score <= 2)
        /\ score \in {2, -2} => bias = "NEUTRAL"

\* C4 witness: a run whose score is exactly 1.0 has been labelled.
C4_Witness ==
    bias_pc = "done" /\ score = 2 /\ bias = "NEUTRAL"

\* ---------------------------------------------------------------- claims: gaps

\* A row the claims call well-formed: a mapping with a symbol under one of
\* the synonyms and numeric fields that parse.
FirstTruthy(r, keys) ==
    IF \E k \in 1..Len(keys) : Truthy(r.f[keys[k]])
    THEN r.f[keys[CHOOSE k \in 1..Len(keys) :
                    /\ Truthy(r.f[keys[k]])
                    /\ \A j \in 1..(k - 1) : ~Truthy(r.f[keys[j]])]]
    ELSE NoneV

Parses(v) == v.t = "none" \/ v.t = "num" \/ v.s \in {"50", "46"}

WellFormed(r) ==
    /\ r.mapping
    /\ FirstTruthy(r, <<"symbol", "scrip", "name">>) # NoneV
    /\ Parses(FirstTruthy(r, <<"prev_close", "prevClose", "previousClose">>))
    /\ Parses(FirstTruthy(r, <<"open", "preopen_price", "preopen">>))
    /\ Parses(FirstTruthy(r, <<"qty", "quantity", "tradedQty">>))

AcceptedShape == preopen_data.shape \in {"dict_data", "dict_result", "list"}

NumWellFormed ==
    Cardinality({k \in 1..Len(preopen_data.rows) : WellFormed(preopen_data.rows[k])})

\* the claimed composite score of a row c of the candidate sequence cs, times
\* 10 * (max qty - min qty), or times 10 when all qty are equal or absent;
\* an undefined gap counts as the 0 that C6 claims for it
ClaimedComposite(cs, c) ==
    LET qs  == {cs[k].qty.n : k \in {j \in 1..Len(cs) : cs[j].qty.t = "num"}}
        lo  == IF qs = {} THEN 0 ELSE CHOOSE m \in qs : \A q \in qs : m <= q
        hi  == IF qs = {} THEN 0 ELSE CHOOSE m \in qs : \A q \in qs : m >= q
        g   == IF c.gap_pct.t = "num" THEN c.gap_pct.n ELSE 0
        mag == IF g < 0 THEN -g ELSE g
    IN  IF hi = lo THEN 7 * mag
        ELSE 7 * mag * (hi - lo) + 3 * (c.qty.n - lo)

\* C5: for a non-empty candidate set the function returns exactly
\* min(top_n, number of candidates) rows, in non-increasing order of
\* 0.7 * |gap_pct| + 0.3 * normalized qty, and no omitted candidate scores
\* higher than a returned one; for an empty set it returns an empty list; it
\* never raises while ranking.
C5_TopNRanked ==
    /\ ~(gap_pc = "raised" /\ exc = "TypeError")
    /\ gap_pc = "done" =>
          /\ Len(watch) = (IF top_n <= Len(candidates) THEN top_n ELSE Len(candidates))
          /\ \A a, b \in 1..Len(watch) :
                a < b => ClaimedComposite(candidates, watch[a])
                           >= ClaimedComposite(candidates, watch[b])
          /\ \A k \in 1..Len(candidates) :
                Count(watch, candidates[k]) < Count(candidates, candidates[k])
                => \A a \in 1..Len(watch) :
                      ClaimedComposite(candidates, watch[a])
                        >= ClaimedComposite(candidates, candidates[k])

\* C6: on both paths every candidate's gap_pct is a number: 0 when the
\* previous close is 0, (new - old) / old * 100 otherwise.
C6_GapAlwaysDefined ==
    \A k \in 1..Len(candidates) :
        LET c == candidates[k]
        IN  /\ c.gap_pct.t = "num"
            /\ c.prev_close = 0 => c.gap_pct.n = 0
            /\ c.prev_close # 0 =>
                  c.gap_pct.n * c.prev_close = (c.preopen - c.prev_close) * 100

\* C7: for a snapshot of an accepted shape, whatever its rows hold, the call
\* never raises; once the rows are processed the candidates are exactly the
\* well-formed rows.
C7_BadRowsDropped ==
    AcceptedShape =>
        /\ exc = ""
        /\ (gap_pc = "rank" /\ ~consulted) => Len(candidates) = NumWellFormed

PastDecision ==
    \/ gap_pc \in {"fallback", "rank", "done"}
    \/ gap_pc = "raised" /\ exc = "TypeError"

====
